---- MODULE Spec2Model ----
(***************************************************************************)
(* A model of llvm/lib/Transforms/Vectorize/VPlanRecipes.cpp:              *)
(*   - the effect classifier of VPRecipeBase (mayReadFromMemory,           *)
(*     mayWriteToMemory, mayHaveSideEffects),                              *)
(*   - the block-membership operations of VPRecipeBase (insertBefore,      *)
(*     insertAfter, removeFromParent, eraseFromParent, moveAfter,          *)
(*     moveBefore),                                                        *)
(*   - the execute() procedures of the recipes, run against a              *)
(*     VPTransformState.                                                   *)
(* assert(c) is modelled as it is written: the call ends in a fatal        *)
(* assertion failure when c is false (a build with assertions enabled).    *)
(***************************************************************************)
EXTENDS Integers, Sequences, FiniteSets, TLC

VARIABLES
  recipe,      \* effect classifier: the recipe being queried
  ans,         \* effect classifier: the answers of the three predicates
  RecipeList,  \* blocks: VPBasicBlock -> its recipe list (a sequence)
  Parent,      \* blocks: recipe -> its Parent block, or NoParent
  alive,       \* blocks: the recipes that have not been destroyed
  fatal,       \* blocks: the message of the assertion that failed, or ""
  last,        \* blocks: the most recent call (history, for the properties)
  State,       \* lowering: the VPTransformState and the IR emitted so far
  plan,        \* lowering: the attributes of the recipes lowered so far
  pc           \* lowering: the position in LoweringOrder of the next recipe to lower

vars == <<recipe, ans, RecipeList, Parent, alive, fatal, last, State, plan, pc>>
lowerVars == <<State, plan, pc>>
effectVars == <<recipe, ans>>
blockVars == <<RecipeList, Parent, alive, fatal, last>>

-----------------------------------------------------------------------------
(* Effect classifier                                                       *)

\* The recipe kinds (VPDef ids) whose classes this file implements.
PureReadWriteKinds ==
  {"VPWidenIntOrFpInductionSC", "VPWidenCanonicalIVSC", "VPWidenPHISC",
   "VPBlendSC", "VPWidenSC", "VPWidenGEPSC", "VPReductionSC",
   "VPWidenSelectSC"}

PureSideEffectKinds ==
  {"VPWidenIntOrFpInductionSC", "VPWidenPointerInductionSC",
   "VPWidenCanonicalIVSC", "VPWidenPHISC", "VPBlendSC", "VPWidenSC",
   "VPWidenGEPSC", "VPReductionSC", "VPWidenSelectSC", "VPScalarIVStepsSC"}

MirroringKinds == {"VPReplicateSC", "VPWidenCallSC"}

OtherKinds ==
  {"VPWidenMemoryInstructionSC", "VPBranchOnMaskSC", "VPInstructionSC",
   "VPCanonicalIVPHISC", "VPFirstOrderRecurrencePHISC", "VPReductionPHISC",
   "VPExpandSCEVSC", "VPPredInstPHISC"}

RecipeKinds ==
  PureReadWriteKinds \cup PureSideEffectKinds \cup MirroringKinds \cup OtherKinds

\* Kinds that always mirror an instruction (their constructors take one).
AlwaysMirrors == MirroringKinds \cup {"VPWidenMemoryInstructionSC"}

\* A recipe as the classifier sees it: its kind, whether its single value has an
\* underlying instruction and that instruction's effect properties, and, for a
\* widened memory access, whether it is a store. An instruction that may write
\* to memory has side effects (Instruction::mayHaveSideEffects).
RecipeInputs ==
  { r \in [kind : RecipeKinds, hasUnderlying : BOOLEAN, uRead : BOOLEAN,
           uWrite : BOOLEAN, uSide : BOOLEAN, isStore : BOOLEAN] :
      /\ (r.kind \in AlwaysMirrors) => r.hasUnderlying
      /\ (~r.hasUnderlying) => (~r.uRead /\ ~r.uWrite /\ ~r.uSide)
      /\ r.uWrite => r.uSide
      /\ r.isStore => r.kind = "VPWidenMemoryInstructionSC"
      /\ (r.kind = "VPWidenMemoryInstructionSC") =>
            (r.uRead = ~r.isStore /\ r.uWrite = r.isStore) }

Bool(b) == IF b THEN "true" ELSE "false"

mayWriteToMemory(r) ==
  IF r.kind = "VPWidenMemoryInstructionSC" THEN Bool(r.isStore)
  ELSE IF r.kind \in MirroringKinds THEN Bool(r.uWrite)
  ELSE IF r.kind = "VPBranchOnMaskSC" THEN "false"
  ELSE IF r.kind \in PureReadWriteKinds
    THEN IF r.hasUnderlying /\ r.uWrite THEN "assert" ELSE "false"
  ELSE "true"

mayReadFromMemory_ReplicateTrue(r) ==
  IF r.kind = "VPWidenMemoryInstructionSC" THEN Bool(~r.isStore)
  ELSE IF r.kind \in MirroringKinds THEN "true"
  ELSE IF r.kind = "VPBranchOnMaskSC" THEN "false"
  ELSE IF r.kind \in PureReadWriteKinds
    THEN IF r.hasUnderlying /\ r.uRead THEN "assert" ELSE "false"
  ELSE "true"

mayReadFromMemory(r) ==
  IF r.kind = "VPWidenMemoryInstructionSC" THEN Bool(~r.isStore)
  ELSE IF r.kind \in MirroringKinds THEN Bool(r.uRead)
  ELSE IF r.kind = "VPBranchOnMaskSC" THEN "false"
  ELSE IF r.kind \in PureReadWriteKinds
    THEN IF r.hasUnderlying /\ r.uRead THEN "assert" ELSE "false"
  ELSE "true"

mayHaveSideEffects_StepsDefault(r) ==
  IF r.kind \in PureSideEffectKinds \ {"VPScalarIVStepsSC"}
    THEN IF r.hasUnderlying /\ r.uSide THEN "assert" ELSE "false"
  ELSE IF r.kind = "VPReplicateSC" THEN Bool(r.uSide)
  ELSE "true"

mayHaveSideEffects(r) ==
  IF r.kind \in PureSideEffectKinds
    THEN IF r.hasUnderlying /\ r.uSide THEN "assert" ELSE "false"
  ELSE IF r.kind = "VPReplicateSC" THEN Bool(r.uSide)
  ELSE "true"

Unset == [rd |-> "unset", wr |-> "unset", se |-> "unset"]

CallMayReadFromMemory ==
  /\ ans.rd = "unset"
  /\ ans' = [ans EXCEPT !.rd = mayReadFromMemory(recipe)]
  /\ UNCHANGED recipe

CallMayWriteToMemory ==
  /\ ans.wr = "unset"
  /\ ans' = [ans EXCEPT !.wr = mayWriteToMemory(recipe)]
  /\ UNCHANGED recipe

CallMayHaveSideEffects ==
  /\ ans.se = "unset"
  /\ ans' = [ans EXCEPT !.se = mayHaveSideEffects(recipe)]
  /\ UNCHANGED recipe

-----------------------------------------------------------------------------
(* Block membership                                                        *)

MaxRecipes == 3
MaxBlocks == 2

RecipeIds == 1..MaxRecipes
Blocks == 1..MaxBlocks
NoParent == 0
\* The end() iterator of a block; any other iterator is the recipe it points at.
EndIt == 0

IndexOf(s, x) == CHOOSE i \in 1..Len(s) : s[i] = x
InsertAt(s, i, x) == SubSeq(s, 1, i - 1) \o <<x>> \o SubSeq(s, i, Len(s))
RemoveAt(s, i) == SubSeq(s, 1, i - 1) \o SubSeq(s, i + 1, Len(s))
Occurrences(s, x) == Cardinality({i \in 1..Len(s) : s[i] = x})

\* The membership state the operations act on.
Cur == [list |-> RecipeList, parent |-> Parent, alive |-> alive, fatal |-> fatal]
Abort(s, msg) == [s EXCEPT !.fatal = msg]

insertBefore_NoParentSet(s, R, InsertPos) ==
  IF s.parent[R] # NoParent THEN Abort(s, "Recipe already in some VPBasicBlock")
  ELSE IF s.parent[InsertPos] = NoParent
    THEN Abort(s, "Insertion position not in any VPBasicBlock")
  ELSE LET B == s.parent[InsertPos] IN
    [s EXCEPT !.list[B] = InsertAt(@, IndexOf(@, InsertPos), R)]

insertBefore(s, R, InsertPos) ==
  IF s.parent[R] # NoParent THEN Abort(s, "Recipe already in some VPBasicBlock")
  ELSE IF s.parent[InsertPos] = NoParent
    THEN Abort(s, "Insertion position not in any VPBasicBlock")
  ELSE LET B == s.parent[InsertPos] IN
    [s EXCEPT !.parent[R] = B,
              !.list[B] = InsertAt(@, IndexOf(@, InsertPos), R)]

\* insertBefore(VPBasicBlock &BB, iplist<VPRecipeBase>::iterator I)
insertBeforeIt(s, R, BB, I) ==
  IF s.parent[R] # NoParent THEN Abort(s, "Recipe already in some VPBasicBlock")
  ELSE IF ~(I = EndIt \/ s.parent[I] = BB)
    THEN Abort(s, "I == BB.end() || I->getParent() == &BB")
  ELSE [s EXCEPT !.parent[R] = BB,
                 !.list[BB] = IF I = EndIt THEN Append(@, R)
                              ELSE InsertAt(@, IndexOf(@, I), R)]

insertAfter_ParentFirst(s, R, InsertPos) ==
  IF s.parent[InsertPos] = NoParent
    THEN Abort(s, "Insertion position not in any VPBasicBlock")
  ELSE LET s1 == [s EXCEPT !.parent[R] = s.parent[InsertPos]] IN
    IF s.parent[R] # NoParent
      THEN Abort(s1, "Recipe already in some VPBasicBlock")
    ELSE LET B == s1.parent[InsertPos] IN
      [s1 EXCEPT !.list[B] = InsertAt(@, IndexOf(@, InsertPos) + 1, R)]

insertAfter(s, R, InsertPos) ==
  IF s.parent[R] # NoParent THEN Abort(s, "Recipe already in some VPBasicBlock")
  ELSE IF s.parent[InsertPos] = NoParent
    THEN Abort(s, "Insertion position not in any VPBasicBlock")
  ELSE LET B == s.parent[InsertPos] IN
    [s EXCEPT !.parent[R] = B,
              !.list[B] = InsertAt(@, IndexOf(@, InsertPos) + 1, R)]

removeFromParent_KeepsParent(s, R) ==
  IF s.parent[R] = NoParent THEN Abort(s, "Recipe not in any VPBasicBlock")
  ELSE LET B == s.parent[R] IN
    [s EXCEPT !.list[B] = RemoveAt(@, IndexOf(@, R))]

removeFromParent(s, R) ==
  IF s.parent[R] = NoParent THEN Abort(s, "Recipe not in any VPBasicBlock")
  ELSE LET B == s.parent[R] IN
    [s EXCEPT !.list[B] = RemoveAt(@, IndexOf(@, R)),
              !.parent[R] = NoParent]

\* iplist::erase unlinks the recipe and destroys it; Parent is not reset, the
\* object no longer exists.
eraseFromParent(s, R) ==
  IF s.parent[R] = NoParent THEN Abort(s, "Recipe not in any VPBasicBlock")
  ELSE LET B == s.parent[R] IN
    [s EXCEPT !.list[B] = RemoveAt(@, IndexOf(@, R)),
              !.alive = @ \ {R}]

\* Variant: the recipe is put back before the position.
moveAfter_InsertsBefore(s, R, InsertPos) ==
  LET s1 == removeFromParent(s, R) IN
    IF s1.fatal # "" THEN s1 ELSE insertBefore(s1, R, InsertPos)

moveAfter(s, R, InsertPos) ==
  LET s1 == removeFromParent(s, R) IN
    IF s1.fatal # "" THEN s1 ELSE insertAfter(s1, R, InsertPos)

moveBefore(s, R, BB, I) ==
  LET s1 == removeFromParent(s, R) IN
    IF s1.fatal # "" THEN s1 ELSE insertBeforeIt(s1, R, BB, I)

NoLists == [b \in Blocks |-> <<>>]
InsertOps == {"insertBefore", "insertAfter"}

\* One call: the membership state becomes s; `last` records the call (for
\* moveBefore with its block argument), the state it was made in and, for
\* removeFromParent, whether it undoes the insertion made by the call right
\* before it.
CallIn(op, R, P, BB, s) ==
  /\ RecipeList' = s.list
  /\ Parent' = s.parent
  /\ alive' = s.alive
  /\ fatal' = s.fatal
  /\ last' = [op |-> op, r |-> R, p |-> P, bb |-> BB,
              rLinked |-> Parent[R] # NoParent,
              pLinked |-> IF P \in RecipeIds THEN Parent[P] # NoParent ELSE FALSE,
              preList |-> RecipeList, preParent |-> Parent,
              undoes |-> /\ op = "removeFromParent"
                         /\ last.op \in InsertOps
                         /\ last.r = R
                         /\ last.rLinked = FALSE /\ last.pLinked,
              beforeInsert |-> IF op = "removeFromParent" /\ last.op \in InsertOps
                                 THEN last.preList ELSE NoLists]

Call(op, R, P, s) == CallIn(op, R, P, NoParent, s)

CallInsertBefore ==
  \E R \in alive, P \in alive :
    fatal = "" /\ Call("insertBefore", R, P, insertBefore(Cur, R, P))

CallInsertBeforeIt ==
  \E R \in alive, BB \in Blocks, I \in alive \cup {EndIt} :
    /\ fatal = ""
    /\ I # EndIt => Parent[I] # NoParent
    /\ Call("insertBeforeIt", R, I, insertBeforeIt(Cur, R, BB, I))

CallInsertAfter ==
  \E R \in alive, P \in alive :
    fatal = "" /\ Call("insertAfter", R, P, insertAfter(Cur, R, P))

CallRemoveFromParent ==
  \E R \in alive :
    fatal = "" /\ Call("removeFromParent", R, NoParent, removeFromParent(Cur, R))

CallEraseFromParent ==
  \E R \in alive :
    fatal = "" /\ Call("eraseFromParent", R, NoParent, eraseFromParent(Cur, R))

CallMoveAfter ==
  \E R \in alive, P \in alive :
    fatal = "" /\ Call("moveAfter", R, P, moveAfter(Cur, R, P))

CallMoveBefore ==
  \E R \in alive, BB \in Blocks, I \in alive \cup {EndIt} :
    /\ fatal = ""
    /\ I # EndIt => Parent[I] # NoParent
    /\ CallIn("moveBefore", R, I, BB, moveBefore(Cur, R, BB, I))

NoCall == [op |-> "none", r |-> 1, p |-> NoParent, bb |-> NoParent, rLinked |-> FALSE,
           pLinked |-> FALSE, preList |-> NoLists,
           preParent |-> [x \in RecipeIds |-> NoParent],
           undoes |-> FALSE, beforeInsert |-> NoLists]

-----------------------------------------------------------------------------
(* Lowering: the execution state and the emitted IR                        *)

MaxUF == 3
MaxVF == 3
\* The vectorization factors: scalar (the loop is only unrolled) or MaxVF lanes.
VFs == {1, MaxVF}

\* The recipes of the plan in the order the driver lowers them (the order of
\* the block's recipe list), and the live-in values recipes use as operands.
LoweringOrder ==
  <<"CanIV", "FOR", "RedPhi", "WidenIV", "Mask", "Splice", "Widen", "VPI", "Inc",
    "Br">>
LiveIns == {"BTC", "VTC"}
\* The live-in whose value the pass stores for every part before it lowers the
\* first recipe (the vector trip count).
PreparedLiveIns == {"VTC"}
VPValueIds == {LoweringOrder[i] : i \in 1..Len(LoweringOrder)} \cup LiveIns
LiveInIRValue(Def) == IF Def = "VTC" THEN <<"c", 12>> ELSE <<"c", 9>>

\* An IR value is a constant <<"c", n>>, an emitted instruction <<"i", id>>
\* (id: its index in State.IR, i.e. the identity of the object), or none.
NoValue == <<"none", 0>>
ConstRef(n) == <<"c", n>>
InstRef(id) == <<"i", id>>
Poison == -1

\* An instruction: opcode, operands, element count of its type (1: scalar),
\* flags, name, the block it is in, a phi's incoming (value, block) pairs, a
\* branch's successors, and the recipe and Part whose lowering created it.
Inst(op, args, lanes, flags, name, bb, by, part) ==
  [op |-> op, args |-> args, lanes |-> lanes, flags |-> flags, name |-> name,
   bb |-> bb, incoming |-> <<>>, succ |-> <<>>, by |-> by, part |-> part]

Emit(st, I) == [st EXCEPT !.IR = Append(@, I)]
LastRef(st) == InstRef(Len(st.IR))
isVectorTy(st, V) == V[1] = "i" /\ st.IR[V[2]].lanes > 1
addIncoming(st, Phi, V, BB) ==
  [st EXCEPT !.IR[Phi[2]].incoming = Append(@, [v |-> V, bb |-> BB])]

\* VPTransformState::set(Def, V, Part): stores (overwriting) the entry of the
\* key; stores and first are history: the number of stores to each key and the
\* value first stored.
StateSet(st, Def, V, Part) ==
  LET k == <<Def, Part>> IN
    [st EXCEPT !.Data[k] = V,
               !.stores[k] = @ + 1,
               !.first[k] = IF st.stores[k] = 0 THEN V ELSE @]

\* VPTransformState::get(Def, Part): the entry of the key; for a live-in without
\* entry, the live-in IR value broadcast to the vector width, which is then
\* stored. A read of a recipe's value that has no entry is recorded in missed.
StateGet(st, Def, Part) ==
  LET k == <<Def, Part>> IN
    IF st.Data[k] # NoValue THEN [st |-> st, v |-> st.Data[k]]
    ELSE IF Def \in LiveIns
      THEN IF st.VF = 1
        THEN [st |-> StateSet(st, Def, LiveInIRValue(Def), Part),
              v |-> LiveInIRValue(Def)]
        ELSE LET st1 == Emit(st, Inst("splat", <<LiveInIRValue(Def)>>, st.VF, {},
                                      "broadcast", "preheader", Def, Part))
             IN [st |-> StateSet(st1, Def, LastRef(st1), Part), v |-> LastRef(st1)]
    ELSE [st |-> [st EXCEPT !.missed = @ \cup {k}], v |-> NoValue]

\* VPTransformState::get(Def, VPIteration(Part, Lane)): the scalar of one lane,
\* extracted from the vector value when the value is a vector.
StateGetLane(st, Def, Part, Lane, by) ==
  LET g == StateGet(st, Def, Part) IN
    IF isVectorTy(g.st, g.v)
      THEN LET st1 == Emit(g.st, Inst("extractelement", <<g.v, ConstRef(Lane)>>, 1,
                                      {}, "", "header", by, Part))
           IN [st |-> st1, v |-> LastRef(st1)]
    ELSE g

\* createStepForVF(Builder, Ty, VF, Step): the constant VF * Step.
createStepForVF(VF, Step) == ConstRef(VF * Step)

\* The value an IR value has in the first iteration of the vector loop (a phi
\* has its incoming value from the preheader), as a sequence of lanes.
AddLane(a, b) == IF a = Poison \/ b = Poison THEN Poison ELSE a + b

RECURSIVE Eval(_, _)
Eval(IR, V) ==
  IF V[1] = "c" THEN <<V[2]>>
  ELSE IF V[1] = "none" THEN <<>>
  ELSE LET I == IR[V[2]] IN
    CASE I.op = "phi" ->
           IF I.incoming = <<>> THEN <<>> ELSE Eval(IR, I.incoming[1].v)
      [] I.op = "add" ->
           LET a == Eval(IR, I.args[1])
               b == Eval(IR, I.args[2])
           IN [l \in 1..I.lanes |-> AddLane(a[l], b[l])]
      [] I.op = "splat" ->
           LET a == Eval(IR, I.args[1]) IN [l \in 1..I.lanes |-> a[1]]
      [] I.op = "stepvector" -> [l \in 1..I.lanes |-> l - 1]
      [] I.op = "poison" -> [l \in 1..I.lanes |-> Poison]
      [] I.op = "insertelement" ->
           LET a == Eval(IR, I.args[1])
               x == Eval(IR, I.args[2])
               i == Eval(IR, I.args[3])
           IN [a EXCEPT ![i[1] + 1] = x[1]]
      [] I.op = "splice" ->
           \* llvm.experimental.vector.splice(V1, V2, -1): the last element of
           \* V1 followed by all but the last element of V2
           LET a == Eval(IR, I.args[1])
               b == Eval(IR, I.args[2])
           IN <<a[I.lanes]>> \o SubSeq(b, 1, I.lanes - 1)
      [] OTHER -> <<>>

RECURSIVE SumSeq(_)
SumSeq(s) == IF s = <<>> THEN 0 ELSE Head(s) + SumSeq(Tail(s))

RECURSIVE SetParts(_, _, _, _, _)
SetParts(st, Def, V, Part, End) ==
  IF Part >= End THEN st
  ELSE SetParts(StateSet(st, Def, V, Part), Def, V, Part + 1, End)

-----------------------------------------------------------------------------
(* Lowering: the phi recipes and the widened canonical IV                  *)

VPCanonicalIVPHIRecipe_execute(st, Start) ==
  LET st1 == Emit(st, Inst("phi", <<>>, 1, {}, "index", "header", "CanIV", 0))
      EntryPart == LastRef(st1)
      st2 == addIncoming(st1, EntryPart, ConstRef(Start), "preheader")
  IN SetParts(st2, "CanIV", EntryPart, 0, st.UF)

\* Variant: the start value is inserted at the first lane.
VPFirstOrderRecurrencePHIRecipe_execute_FirstLane(st, Start) ==
  LET Scalar == st.VF = 1
      Lanes == st.VF
      \* VectorInit: the start value, inserted at index 0 of a poison vector
      st1 == IF Scalar THEN st
             ELSE Emit(Emit(st, Inst("poison", <<>>, Lanes, {}, "", "preheader", "FOR", 0)),
                       Inst("insertelement",
                            <<InstRef(Len(st.IR) + 1), ConstRef(Start), ConstRef(0)>>,
                            Lanes, {}, "vector.recur.init", "preheader", "FOR", 0))
      VectorInit == IF Scalar THEN ConstRef(Start) ELSE LastRef(st1)
      st2 == Emit(st1, Inst("phi", <<>>, Lanes, {}, "vector.recur", "header", "FOR", 0))
      EntryPart == LastRef(st2)
      st3 == addIncoming(st2, EntryPart, VectorInit, "preheader")
  IN StateSet(st3, "FOR", EntryPart, 0)

VPFirstOrderRecurrencePHIRecipe_execute(st, Start) ==
  LET Scalar == st.VF = 1
      Lanes == st.VF
      \* VectorInit: the start value, inserted at index VF - 1 of a poison vector
      st1 == IF Scalar THEN st
             ELSE Emit(Emit(st, Inst("poison", <<>>, Lanes, {}, "", "preheader", "FOR", 0)),
                       Inst("insertelement",
                            <<InstRef(Len(st.IR) + 1), ConstRef(Start), ConstRef(st.VF - 1)>>,
                            Lanes, {}, "vector.recur.init", "preheader", "FOR", 0))
      VectorInit == IF Scalar THEN ConstRef(Start) ELSE LastRef(st1)
      st2 == Emit(st1, Inst("phi", <<>>, Lanes, {}, "vector.recur", "header", "FOR", 0))
      EntryPart == LastRef(st2)
      st3 == addIncoming(st2, EntryPart, VectorInit, "preheader")
  IN StateSet(st3, "FOR", EntryPart, 0)

MinMaxOrSelectCmpKinds == {"SMax", "SelectICmp"}
RecurKinds == {"Add", "Mul"} \cup MinMaxOrSelectCmpKinds
\* RecurrenceDescriptor::getRecurrenceIdentity
getRecurrenceIdentity(RK) == IF RK = "Mul" THEN ConstRef(1) ELSE ConstRef(0)

\* Variant: a phi is created for every part, whatever LastPartForNewPhi is.
RECURSIVE CreateReductionPhis_EveryPart(_, _, _, _)
CreateReductionPhis_EveryPart(st, Lanes, Part, LastPartForNewPhi) ==
  IF Part >= st.UF THEN st
  ELSE LET st1 == Emit(st, Inst("phi", <<>>, Lanes, {}, "vec.phi", "header", "RedPhi", Part))
       IN CreateReductionPhis_EveryPart(StateSet(st1, "RedPhi", LastRef(st1), Part),
                                        Lanes, Part + 1, LastPartForNewPhi)

RECURSIVE CreateReductionPhis(_, _, _, _)
CreateReductionPhis(st, Lanes, Part, LastPartForNewPhi) ==
  IF Part >= LastPartForNewPhi THEN st
  ELSE LET st1 == Emit(st, Inst("phi", <<>>, Lanes, {}, "vec.phi", "header", "RedPhi", Part))
       IN CreateReductionPhis(StateSet(st1, "RedPhi", LastRef(st1), Part),
                              Lanes, Part + 1, LastPartForNewPhi)

\* Variant: every part gets the start value.
ReductionStartVal_AlwaysStart(Part, StartV, Iden) == StartV

\* The start value is added only to the first unroll part.
ReductionStartVal(Part, StartV, Iden) == IF Part = 0 THEN StartV ELSE Iden

\* Variant: stores the phi again after giving it its incoming value.
RECURSIVE SeedReductionPhis_StoresAgain(_, _, _, _, _)
SeedReductionPhis_StoresAgain(st, StartV, Iden, Part, LastPartForNewPhi) ==
  IF Part >= LastPartForNewPhi THEN st
  ELSE LET g == StateGet(st, "RedPhi", Part)
           StartVal == ReductionStartVal(Part, StartV, Iden)
           st1 == addIncoming(g.st, g.v, StartVal, "preheader")
       IN SeedReductionPhis_StoresAgain(StateSet(st1, "RedPhi", StartVal, Part),
                                        StartV, Iden, Part + 1, LastPartForNewPhi)

RECURSIVE SeedReductionPhis(_, _, _, _, _)
SeedReductionPhis(st, StartV, Iden, Part, LastPartForNewPhi) ==
  IF Part >= LastPartForNewPhi THEN st
  ELSE LET g == StateGet(st, "RedPhi", Part)
           StartVal == ReductionStartVal(Part, StartV, Iden)
       IN SeedReductionPhis(addIncoming(g.st, g.v, StartVal, "preheader"),
                            StartV, Iden, Part + 1, LastPartForNewPhi)

VPReductionPHIRecipe_execute(st, Start, RK, IsInLoop, IsOrdered) ==
  LET ScalarPHI == st.VF = 1 \/ IsInLoop
      Lanes == IF ScalarPHI THEN 1 ELSE st.VF
      LastPartForNewPhi == IF IsOrdered THEN 1 ELSE st.UF
      st1 == CreateReductionPhis(st, Lanes, 0, LastPartForNewPhi)
      MinMax == RK \in MinMaxOrSelectCmpKinds
      \* the instructions that build StartV and Iden
      st2 == IF ScalarPHI THEN st1
             ELSE IF MinMax
               THEN Emit(st1, Inst("splat", <<ConstRef(Start)>>, st.VF, {},
                                   "minmax.ident", "preheader", "RedPhi", 0))
             ELSE Emit(Emit(st1, Inst("splat", <<getRecurrenceIdentity(RK)>>, st.VF, {},
                                      "", "header", "RedPhi", 0)),
                       Inst("insertelement",
                            <<InstRef(Len(st1.IR) + 1), ConstRef(Start), ConstRef(0)>>,
                            st.VF, {}, "", "preheader", "RedPhi", 0))
      Iden == IF MinMax
                THEN (IF ScalarPHI THEN ConstRef(Start) ELSE LastRef(st2))
              ELSE IF ScalarPHI THEN getRecurrenceIdentity(RK)
              ELSE InstRef(Len(st1.IR) + 1)
      StartV == IF ScalarPHI THEN ConstRef(Start) ELSE LastRef(st2)
  IN SeedReductionPhis(st2, StartV, Iden, 0, LastPartForNewPhi)

\* Variant: the step of a part is the part number, not scaled by VF.
RECURSIVE WidenCanonicalIVParts_UnscaledStep(_, _, _)
WidenCanonicalIVParts_UnscaledStep(st, VStart, Part) ==
  IF Part >= st.UF THEN st
  ELSE LET Step == ConstRef(Part)
           st1 == IF st.VF > 1
                    THEN Emit(Emit(Emit(st,
                           Inst("splat", <<Step>>, st.VF, {}, "", "header", "WidenIV", Part)),
                           Inst("stepvector", <<>>, st.VF, {}, "", "header", "WidenIV", Part)),
                           Inst("add", <<InstRef(Len(st.IR) + 1), InstRef(Len(st.IR) + 2)>>,
                                st.VF, {}, "", "header", "WidenIV", Part))
                  ELSE st
           VStep == IF st.VF > 1 THEN LastRef(st1) ELSE Step
           st2 == Emit(st1, Inst("add", <<VStart, VStep>>, st.VF, {}, "vec.iv",
                                 "header", "WidenIV", Part))
       IN WidenCanonicalIVParts_UnscaledStep(StateSet(st2, "WidenIV", LastRef(st2), Part),
                                VStart, Part + 1)

RECURSIVE WidenCanonicalIVParts(_, _, _)
WidenCanonicalIVParts(st, VStart, Part) ==
  IF Part >= st.UF THEN st
  ELSE LET Step == createStepForVF(st.VF, Part)
           st1 == IF st.VF > 1
                    THEN Emit(Emit(Emit(st,
                           Inst("splat", <<Step>>, st.VF, {}, "", "header", "WidenIV", Part)),
                           Inst("stepvector", <<>>, st.VF, {}, "", "header", "WidenIV", Part)),
                           Inst("add", <<InstRef(Len(st.IR) + 1), InstRef(Len(st.IR) + 2)>>,
                                st.VF, {}, "", "header", "WidenIV", Part))
                  ELSE st
           VStep == IF st.VF > 1 THEN LastRef(st1) ELSE Step
           st2 == Emit(st1, Inst("add", <<VStart, VStep>>, st.VF, {}, "vec.iv",
                                 "header", "WidenIV", Part))
       IN WidenCanonicalIVParts(StateSet(st2, "WidenIV", LastRef(st2), Part),
                                VStart, Part + 1)

VPWidenCanonicalIVRecipe_execute(st) ==
  LET g == StateGet(st, "CanIV", 0)
      CanonicalIV == g.v
      st1 == IF st.VF = 1 THEN g.st
             ELSE Emit(g.st, Inst("splat", <<CanonicalIV>>, st.VF, {}, "broadcast",
                                  "header", "WidenIV", 0))
      VStart == IF st.VF = 1 THEN CanonicalIV ELSE LastRef(st1)
  IN WidenCanonicalIVParts(st1, VStart, 0)

-----------------------------------------------------------------------------
(* Lowering: VPInstruction and VPWidenRecipe                               *)

VPInstructionIds == {"Mask", "Splice", "VPI", "Inc", "Br"}

\* The opcodes each VPInstruction of the plan can have, and its operands.
OpcodesOf(R) ==
  CASE R = "Mask" -> {"ICmpULE", "ActiveLaneMask"}
    [] R = "Splice" -> {"FirstOrderRecurrenceSplice"}
    [] R = "VPI" -> {"Add", "Not", "Select"}
    [] R = "Inc" -> {"CanonicalIVIncrement", "CanonicalIVIncrementNUW"}
    [] R = "Br" -> {"BranchOnCond", "BranchOnCount"}

getOperand(R, Opcode, i) ==
  CASE R = "Mask" -> <<"WidenIV", "BTC">>[i]
    [] R = "Splice" -> <<"FOR", "WidenIV">>[i]
    [] R = "Inc" -> <<"CanIV">>[i]
    [] R = "Br" /\ Opcode = "BranchOnCond" -> <<"Mask">>[i]
    [] R = "Br" /\ Opcode = "BranchOnCount" -> <<"Inc", "VTC">>[i]
    [] R = "VPI" /\ Opcode = "Add" -> <<"Widen", "BTC">>[i]
    [] R = "VPI" /\ Opcode = "Not" -> <<"Mask">>[i]
    [] R = "VPI" /\ Opcode = "Select" -> <<"Mask", "Widen", "BTC">>[i]

isBinaryOp(Opcode) == Opcode \in {"Add"}
LanesOf(st, V) == IF V[1] = "i" THEN st.IR[V[2]].lanes ELSE 1

\* Builder.Create...(operands) followed by State.set(this, V, Part)
CreateAndSet(st, R, Part, op, args, lanes, flags, name) ==
  LET st1 == Emit(st, Inst(op, args, lanes, flags, name, "header", R, Part))
  IN StateSet(st1, R, LastRef(st1), Part)

\* Variant: the previous value is read from the current part.
FirstOrderRecurrenceSplice_SamePart(st, R, Part) ==
  LET g1 == StateGet(st, getOperand(R, "FirstOrderRecurrenceSplice", 1), 0)
      V1 == g1.v
      gp == IF Part = 0 THEN g1
            ELSE StateGet(g1.st, getOperand(R, "FirstOrderRecurrenceSplice", 2), Part)
      PartMinus1 == IF Part = 0 THEN V1 ELSE gp.v
  IN IF ~isVectorTy(gp.st, PartMinus1) THEN StateSet(gp.st, R, PartMinus1, Part)
     ELSE LET g2 == StateGet(gp.st, getOperand(R, "FirstOrderRecurrenceSplice", 2), Part)
          IN CreateAndSet(g2.st, R, Part, "splice", <<PartMinus1, g2.v>>,
                          LanesOf(g2.st, g2.v), {}, "")

FirstOrderRecurrenceSplice(st, R, Part) ==
  LET g1 == StateGet(st, getOperand(R, "FirstOrderRecurrenceSplice", 1), 0)
      V1 == g1.v
      gp == IF Part = 0 THEN g1
            ELSE StateGet(g1.st, getOperand(R, "FirstOrderRecurrenceSplice", 2), Part - 1)
      PartMinus1 == IF Part = 0 THEN V1 ELSE gp.v
  IN IF ~isVectorTy(gp.st, PartMinus1) THEN StateSet(gp.st, R, PartMinus1, Part)
     ELSE LET g2 == StateGet(gp.st, getOperand(R, "FirstOrderRecurrenceSplice", 2), Part)
          IN CreateAndSet(g2.st, R, Part, "splice", <<PartMinus1, g2.v>>,
                          LanesOf(g2.st, g2.v), {}, "")

\* Variant: every part creates its own add.
CanonicalIVIncrement_AddPerPart(st, R, Opcode, Part) ==
  LET IsNUW == Opcode = "CanonicalIVIncrementNUW"
      g == StateGet(st, getOperand(R, Opcode, 1), 0)
      Step == createStepForVF(st.VF, st.UF)
  IN CreateAndSet(g.st, R, Part, "add", <<g.v, Step>>, LanesOf(g.st, g.v),
                  IF IsNUW THEN {"nuw"} ELSE {}, "index.next")

CanonicalIVIncrement(st, R, Opcode, Part) ==
  IF Part = 0
    THEN LET IsNUW == Opcode = "CanonicalIVIncrementNUW"
             g == StateGet(st, getOperand(R, Opcode, 1), 0)
             Phi == g.v
             Step == createStepForVF(st.VF, st.UF)
         IN CreateAndSet(g.st, R, Part, "add", <<Phi, Step>>, LanesOf(g.st, Phi),
                         IF IsNUW THEN {"nuw"} ELSE {}, "index.next")
  ELSE LET g == StateGet(st, R, 0)
           Next == g.v
       IN StateSet(g.st, R, Next, Part)

\* Builder.CreateCondBr(Cond, True, False): successor 0 is the target taken when
\* Cond is true, successor 1 the target taken when it is false.
CreateCondBr(st, Cond, True, False, R, Part) ==
  Emit(st, [Inst("br", <<Cond>>, 1, {}, "", "header", R, Part)
              EXCEPT !.succ = <<True, False>>])
setSuccessor(st, Br, idx, BB) == [st EXCEPT !.IR[Br[2]].succ[idx + 1] = BB]
nullptr == ""
VPBB2IRBB(Header) == "header"
\* The terminators of the insert block, in block order: the builder inserts
\* before the placeholder, which therefore stays last while it is there.
BlockTerminators(st) ==
  LET T == {i \in 1..Len(st.IR) :
              /\ st.IR[i].bb = "header" /\ i \notin st.erased
              /\ st.IR[i].op \in {"br", "unreachable"}}
  IN T
\* BasicBlock::getTerminator(): the last instruction of the block, if it is a
\* terminator: the placeholder while the block has it, else the last created.
getTerminator(st) ==
  IF 1 \in BlockTerminators(st) THEN 1
  ELSE CHOOSE i \in BlockTerminators(st) : \A j \in BlockTerminators(st) : j <= i
eraseTerminator(st) == [st EXCEPT !.erased = @ \cup {getTerminator(st)}]

\* Variant: the header is bound as the target taken when the condition holds.
BranchOnCond_HeaderOnTrue(st, R, Part) ==
  IF Part # 0 THEN st
  ELSE LET c == StateGetLane(st, getOperand(R, "BranchOnCond", 1), Part, 0, R)
           st1 == CreateCondBr(c.st, c.v, "header", nullptr, R, Part)
           CondBr == LastRef(st1)
           st2 == IF st1.ParentIsExiting
                    THEN setSuccessor(st1, CondBr, 0, VPBB2IRBB("Header"))
                  ELSE st1
           st3 == setSuccessor(st2, CondBr, 1, nullptr)
       IN eraseTerminator(st3)

BranchOnCond(st, R, Part) ==
  IF Part # 0 THEN st
  ELSE LET c == StateGetLane(st, getOperand(R, "BranchOnCond", 1), Part, 0, R)
           \* the insert block stands in for the first successor until it is reset
           st1 == CreateCondBr(c.st, c.v, "header", nullptr, R, Part)
           CondBr == LastRef(st1)
           st2 == IF st1.ParentIsExiting
                    THEN setSuccessor(st1, CondBr, 1, VPBB2IRBB("Header"))
                  ELSE st1
           st3 == setSuccessor(st2, CondBr, 0, nullptr)
       IN eraseTerminator(st3)

\* Variant: every part creates the compare and the branch.
BranchOnCount_EveryPart(st, R, Part) ==
  LET iv == StateGet(st, getOperand(R, "BranchOnCount", 1), Part)
      tc == StateGet(iv.st, getOperand(R, "BranchOnCount", 2), Part)
      st1 == Emit(tc.st, Inst("icmp eq", <<iv.v, tc.v>>, 1, {}, "", "header", R, Part))
      st2 == CreateCondBr(st1, LastRef(st1), "header", VPBB2IRBB("Header"), R, Part)
      st3 == setSuccessor(st2, LastRef(st2), 0, nullptr)
  IN eraseTerminator(st3)

BranchOnCount(st, R, Part) ==
  IF Part # 0 THEN st
  ELSE LET iv == StateGet(st, getOperand(R, "BranchOnCount", 1), Part)
           tc == StateGet(iv.st, getOperand(R, "BranchOnCount", 2), Part)
           st1 == Emit(tc.st, Inst("icmp eq", <<iv.v, tc.v>>, 1, {}, "", "header", R, Part))
           Cond == LastRef(st1)
           st2 == CreateCondBr(st1, Cond, "header", VPBB2IRBB("Header"), R, Part)
           CondBr == LastRef(st2)
           st3 == setSuccessor(st2, CondBr, 0, nullptr)
       IN eraseTerminator(st3)

generateInstruction(st, R, Opcode, Part) ==
  IF isBinaryOp(Opcode)
    THEN LET a == StateGet(st, getOperand(R, Opcode, 1), Part)
             b == StateGet(a.st, getOperand(R, Opcode, 2), Part)
         IN CreateAndSet(b.st, R, Part, "add", <<a.v, b.v>>, LanesOf(b.st, a.v), {}, "")
  ELSE CASE Opcode = "Not" ->
         LET a == StateGet(st, getOperand(R, Opcode, 1), Part)
         IN CreateAndSet(a.st, R, Part, "not", <<a.v>>, LanesOf(a.st, a.v), {}, "")
    [] Opcode = "ICmpULE" ->
         LET iv == StateGet(st, getOperand(R, Opcode, 1), Part)
             tc == StateGet(iv.st, getOperand(R, Opcode, 2), Part)
         IN CreateAndSet(tc.st, R, Part, "icmp ule", <<iv.v, tc.v>>,
                         LanesOf(tc.st, iv.v), {}, "")
    [] Opcode = "Select" ->
         LET c == StateGet(st, getOperand(R, Opcode, 1), Part)
             a == StateGet(c.st, getOperand(R, Opcode, 2), Part)
             b == StateGet(a.st, getOperand(R, Opcode, 3), Part)
         IN CreateAndSet(b.st, R, Part, "select", <<c.v, a.v, b.v>>,
                         LanesOf(b.st, a.v), {}, "")
    [] Opcode = "ActiveLaneMask" ->
         LET e == StateGetLane(st, getOperand(R, Opcode, 1), Part, 0, R)
             tc == StateGet(e.st, getOperand(R, Opcode, 2), Part)
         IN CreateAndSet(tc.st, R, Part, "get.active.lane.mask", <<e.v, tc.v>>,
                         st.VF, {}, "active.lane.mask")
    [] Opcode = "FirstOrderRecurrenceSplice" -> FirstOrderRecurrenceSplice(st, R, Part)
    [] Opcode \in {"CanonicalIVIncrement", "CanonicalIVIncrementNUW"} ->
         CanonicalIVIncrement(st, R, Opcode, Part)
    [] Opcode = "BranchOnCond" -> BranchOnCond(st, R, Part)
    [] Opcode = "BranchOnCount" -> BranchOnCount(st, R, Part)

\* Variant: the parts are lowered from the last to the first.
RECURSIVE generateParts_Descending(_, _, _, _)
generateParts_Descending(st, R, Opcode, Part) ==
  IF Part >= st.UF THEN st
  ELSE generateInstruction(generateParts_Descending(st, R, Opcode, Part + 1),
                           R, Opcode, Part)

RECURSIVE generateParts(_, _, _, _)
generateParts(st, R, Opcode, Part) ==
  IF Part >= st.UF THEN st
  ELSE generateParts(generateInstruction(st, R, Opcode, Part), R, Opcode, Part + 1)

VPInstruction_execute(st, R, Opcode) == generateParts(st, R, Opcode, 0)

\* The mirrored scalar operations of the widened recipe: opcode, number of
\* operands and IR flags (wrapping flags, exact, fast-math flags).
WidenIngredients ==
  { [opcode |-> "Add", flags |-> {}],
    [opcode |-> "Add", flags |-> {"nuw", "nsw"}],
    [opcode |-> "UDiv", flags |-> {"exact"}],
    [opcode |-> "FNeg", flags |-> {"reassoc"}] }
WidenOperands(I) ==
  IF I.opcode = "FNeg" THEN <<"Splice">> ELSE <<"Splice", "WidenIV">>

PoisonGeneratingFlags == {"nuw", "nsw", "exact"}
copyIRFlags(I) == I.flags
dropPoisonGeneratingFlags(flags) == flags \ PoisonGeneratingFlags

\* Variant: the flags are copied and never dropped.
WidenFlags_NeverDropped(st, R, I) == copyIRFlags(I)

\* The flags of the widened operation: those of the mirrored operation, without
\* the poison-generating ones when the recipe is in MayGeneratePoisonRecipes.
WidenFlags(st, R, I) ==
  IF R \in st.MayGeneratePoisonRecipes
    THEN dropPoisonGeneratingFlags(copyIRFlags(I))
  ELSE copyIRFlags(I)

RECURSIVE GatherOps(_, _, _, _)
GatherOps(st, VPOps, Part, Ops) ==
  IF VPOps = <<>> THEN [st |-> st, Ops |-> Ops]
  ELSE LET g == StateGet(st, Head(VPOps), Part)
       IN GatherOps(g.st, Tail(VPOps), Part, Append(Ops, g.v))

RECURSIVE WidenParts(_, _, _, _)
WidenParts(st, R, I, Part) ==
  IF Part >= st.UF THEN st
  ELSE LET g == GatherOps(st, WidenOperands(I), Part, <<>>)
       IN WidenParts(CreateAndSet(g.st, R, Part, I.opcode, g.Ops,
                                  LanesOf(g.st, g.Ops[1]), WidenFlags(g.st, R, I), ""),
                     R, I, Part + 1)

VPWidenRecipe_execute(st, R, I) == WidenParts(st, R, I, 0)

-----------------------------------------------------------------------------
(* Lowering: one pass over the recipes of the plan                         *)

CanIVStarts == {0, 5}
FORStarts == {7}
ReductionStarts == {10}
ReductionKinds == {"Add", "Mul", "SMax"}
ReductionModes ==
  { [IsInLoop |-> FALSE, IsOrdered |-> FALSE],
    [IsInLoop |-> TRUE, IsOrdered |-> FALSE],
    [IsInLoop |-> TRUE, IsOrdered |-> TRUE] }

Keys(UF) == VPValueIds \X (0..(UF - 1))
Prepared(k, V) == IF k[1] \in PreparedLiveIns THEN LiveInIRValue(k[1]) ELSE V
\* The block the builder inserts into ends in a placeholder unreachable
\* terminator, before which the builder inserts.
Placeholder == Inst("unreachable", <<>>, 1, {}, "", "header", "", 0)
NewState(VF, UF, MayGeneratePoison) ==
  [VF |-> VF, UF |-> UF, MayGeneratePoisonRecipes |-> MayGeneratePoison,
   Data |-> [k \in Keys(UF) |-> Prepared(k, NoValue)],
   stores |-> [k \in Keys(UF) |-> IF k[1] \in PreparedLiveIns THEN 1 ELSE 0],
   first |-> [k \in Keys(UF) |-> Prepared(k, NoValue)],
   missed |-> {},
   IR |-> <<Placeholder>>,
   erased |-> {},
   ParentIsExiting |-> FALSE]

\* The attributes of the recipes, recorded when the recipe is lowered.
NoPlan ==
  [CanIVStart |-> 0, FORStart |-> 0, RedStart |-> 0, RK |-> "",
   IsInLoop |-> FALSE, IsOrdered |-> FALSE,
   Ingredient |-> [opcode |-> "", flags |-> {}],
   Opcode |-> [R \in VPInstructionIds |-> ""],
   isExiting |-> FALSE]

\* getParent()->isExiting() of a VPInstruction: the branch on the count ends
\* the latch, which exits the loop; a branch on a condition can end any block.
\* The recipes that are no terminators do not read it.
ParentIsExiting(Opcode) ==
  IF Opcode = "BranchOnCond" THEN BOOLEAN
  ELSE IF Opcode = "BranchOnCount" THEN {TRUE}
  ELSE {FALSE}

At(R) == pc <= Len(LoweringOrder) /\ LoweringOrder[pc] = R
Lowered(R) == \E i \in 1..(pc - 1) : LoweringOrder[i] = R

ExecCanonicalIVPHI ==
  /\ At("CanIV")
  /\ \E Start \in CanIVStarts :
       /\ State' = VPCanonicalIVPHIRecipe_execute(State, Start)
       /\ plan' = [plan EXCEPT !.CanIVStart = Start]
  /\ pc' = pc + 1

ExecFirstOrderRecurrencePHI ==
  /\ At("FOR")
  /\ \E Start \in FORStarts :
       /\ State' = VPFirstOrderRecurrencePHIRecipe_execute(State, Start)
       /\ plan' = [plan EXCEPT !.FORStart = Start]
  /\ pc' = pc + 1

ExecReductionPHI ==
  /\ At("RedPhi")
  /\ \E Start \in ReductionStarts, RK \in ReductionKinds, M \in ReductionModes :
       /\ State' = VPReductionPHIRecipe_execute(State, Start, RK, M.IsInLoop, M.IsOrdered)
       /\ plan' = [plan EXCEPT !.RedStart = Start, !.RK = RK,
                               !.IsInLoop = M.IsInLoop, !.IsOrdered = M.IsOrdered]
  /\ pc' = pc + 1

ExecWidenCanonicalIV ==
  /\ At("WidenIV")
  /\ State' = VPWidenCanonicalIVRecipe_execute(State)
  /\ pc' = pc + 1
  /\ UNCHANGED plan

ExecVPInstruction ==
  /\ \E R \in VPInstructionIds :
       /\ At(R)
       /\ \E Opcode \in OpcodesOf(R) :
            \E Exiting \in ParentIsExiting(Opcode) :
              /\ State' = VPInstruction_execute(
                             [State EXCEPT !.ParentIsExiting = Exiting], R, Opcode)
              /\ plan' = [plan EXCEPT !.Opcode[R] = Opcode, !.isExiting = Exiting]
  /\ pc' = pc + 1

ExecWiden ==
  /\ At("Widen")
  /\ \E I \in WidenIngredients :
       /\ State' = VPWidenRecipe_execute(State, "Widen", I)
       /\ plan' = [plan EXCEPT !.Ingredient = I]
  /\ pc' = pc + 1

-----------------------------------------------------------------------------
(* Specifications                                                          *)

\* No lowering pass is running: there is no execution state.
LoweringIdle == State = <<>> /\ plan = <<>> /\ pc = 0

EffectsIdle == recipe = [kind |-> "none"] /\ ans = Unset
BlocksIdle ==
  /\ RecipeList = NoLists
  /\ Parent = [x \in RecipeIds |-> NoParent]
  /\ alive = {}
  /\ fatal = ""
  /\ last = NoCall

InitEffects ==
  /\ recipe \in RecipeInputs
  /\ ans = Unset
  /\ BlocksIdle
  /\ LoweringIdle

NextEffects ==
  \/ CallMayReadFromMemory /\ UNCHANGED <<blockVars, lowerVars>>
  \/ CallMayWriteToMemory /\ UNCHANGED <<blockVars, lowerVars>>
  \/ CallMayHaveSideEffects /\ UNCHANGED <<blockVars, lowerVars>>

SpecEffects == InitEffects /\ [][NextEffects]_vars

\* Every recipe is created unlinked; blocks start empty.
InitBlocks ==
  /\ EffectsIdle
  /\ LoweringIdle
  /\ RecipeList = NoLists
  /\ Parent = [x \in RecipeIds |-> NoParent]
  /\ alive = RecipeIds
  /\ fatal = ""
  /\ last = NoCall

NextBlocks ==
  \/ CallInsertBefore /\ UNCHANGED <<effectVars, lowerVars>>
  \/ CallInsertBeforeIt /\ UNCHANGED <<effectVars, lowerVars>>
  \/ CallInsertAfter /\ UNCHANGED <<effectVars, lowerVars>>
  \/ CallRemoveFromParent /\ UNCHANGED <<effectVars, lowerVars>>
  \/ CallEraseFromParent /\ UNCHANGED <<effectVars, lowerVars>>
  \/ CallMoveAfter /\ UNCHANGED <<effectVars, lowerVars>>
  \/ CallMoveBefore /\ UNCHANGED <<effectVars, lowerVars>>

SpecBlocks == InitBlocks /\ [][NextBlocks]_vars

\* One lowering pass: the vector width, the unroll count and the recipes that
\* may generate poison are fixed when the execution state is created.
InitLowering ==
  /\ EffectsIdle
  /\ BlocksIdle
  /\ \E VF \in VFs, UF \in 1..MaxUF, MayGeneratePoison \in SUBSET {"Widen"} :
       State = NewState(VF, UF, MayGeneratePoison)
  /\ plan = NoPlan
  /\ pc = 1

NextLowering ==
  \/ ExecCanonicalIVPHI /\ UNCHANGED <<effectVars, blockVars>>
  \/ ExecFirstOrderRecurrencePHI /\ UNCHANGED <<effectVars, blockVars>>
  \/ ExecReductionPHI /\ UNCHANGED <<effectVars, blockVars>>
  \/ ExecWidenCanonicalIV /\ UNCHANGED <<effectVars, blockVars>>
  \/ ExecVPInstruction /\ UNCHANGED <<effectVars, blockVars>>
  \/ ExecWiden /\ UNCHANGED <<effectVars, blockVars>>

SpecLowering == InitLowering /\ [][NextLowering]_vars

-----------------------------------------------------------------------------
(* Properties of the effect classifier                                     *)

IsLoad(r) == r.kind = "VPWidenMemoryInstructionSC" /\ ~r.isStore
IsStore(r) == r.kind = "VPWidenMemoryInstructionSC" /\ r.isStore

\* The kinds each predicate's switch names; every other kind takes its default.
ReadWriteNamedKinds ==
  {"VPWidenMemoryInstructionSC", "VPReplicateSC", "VPWidenCallSC",
   "VPBranchOnMaskSC", "VPWidenIntOrFpInductionSC", "VPWidenCanonicalIVSC",
   "VPWidenPHISC", "VPBlendSC", "VPWidenSC", "VPWidenGEPSC", "VPReductionSC",
   "VPWidenSelectSC"}
PureWideningKinds ==
  {"VPWidenIntOrFpInductionSC", "VPWidenPointerInductionSC",
   "VPWidenCanonicalIVSC", "VPWidenPHISC", "VPBlendSC", "VPWidenSC",
   "VPWidenGEPSC", "VPReductionSC", "VPWidenSelectSC", "VPScalarIVStepsSC"}
SideEffectNamedKinds == PureWideningKinds \cup {"VPReplicateSC"}

\* C1 as stated: for every recipe kind, a recipe that is not a widened load and
\* whose mirrored instruction (if any) does not read memory gets false from
\* mayReadFromMemory; likewise mayWriteToMemory (not a widened store, mirrored
\* instruction does not write) and mayHaveSideEffects (mirrored instruction has
\* no side effects).
C1_AsStated ==
  /\ (ans.rd # "unset" /\ ~IsLoad(recipe) /\ ~recipe.uRead) => ans.rd = "false"
  /\ (ans.wr # "unset" /\ ~IsStore(recipe) /\ ~recipe.uWrite) => ans.wr = "false"
  /\ (ans.se # "unset" /\ ~recipe.uSide) => ans.se = "false"

\* C1 amended: the statement holds for the kinds the predicate's switch names
\* (for read and write: widened memory access, replicate, widened call,
\* branch-on-mask and the eight pure kinds; for side effects: the ten
\* pure-widening kinds and replicate); every kind the switch does not name gets
\* the conservative default, true.
C1_NamedKindsFalseOthersTrue ==
  /\ (ans.rd # "unset" /\ ~IsLoad(recipe) /\ ~recipe.uRead) =>
       ans.rd = (IF recipe.kind \in ReadWriteNamedKinds THEN "false" ELSE "true")
  /\ (ans.wr # "unset" /\ ~IsStore(recipe) /\ ~recipe.uWrite) =>
       ans.wr = (IF recipe.kind \in ReadWriteNamedKinds THEN "false" ELSE "true")
  /\ (ans.se # "unset" /\ ~recipe.uSide) =>
       ans.se = (IF recipe.kind \in SideEffectNamedKinds THEN "false" ELSE "true")

C1_Witness ==
  /\ recipe.kind = "VPReplicateSC"
  /\ recipe.hasUnderlying /\ ~recipe.uRead /\ ~recipe.uWrite /\ ~recipe.uSide
  /\ ans = [rd |-> "false", wr |-> "false", se |-> "false"]

\* C2: mayHaveSideEffects never answers true for a pure-widening kind (it
\* answers false whenever it returns, i.e. unless the consistency assertion on
\* the mirrored instruction fails), answers the mirrored instruction's
\* side-effect flag for a replicate recipe, and answers true for every other
\* kind (widened memory access, widened call, VPInstruction, ...).
C2_SideEffectsByKind ==
  ans.se # "unset" =>
    IF recipe.kind \in PureWideningKinds
      THEN /\ ans.se # "true"
           /\ (ans.se = "assert") <=> (recipe.hasUnderlying /\ recipe.uSide)
    ELSE IF recipe.kind = "VPReplicateSC" THEN ans.se = Bool(recipe.uSide)
    ELSE ans.se = "true"

C2_Witness ==
  /\ recipe.kind = "VPScalarIVStepsSC"
  /\ ans.se = "false"

-----------------------------------------------------------------------------
(* Properties of block membership                                          *)

Linked(R) == \E B \in Blocks : \E i \in 1..Len(RecipeList[B]) : RecipeList[B][i] = R
TotalOccurrences(R) ==
  LET RECURSIVE Sum(_)
      Sum(b) == IF b = 0 THEN 0 ELSE Occurrences(RecipeList[b], R) + Sum(b - 1)
  IN Sum(MaxBlocks)

\* C3: insertBefore(P) or insertAfter(P) of an unlinked recipe R at a linked
\* position P, followed immediately by R.removeFromParent(), leaves every
\* block's recipe sequence as it was before the insertion and R without parent.
C3_InsertThenRemoveRestores ==
  last.undoes =>
    /\ fatal = ""
    /\ RecipeList = last.beforeInsert
    /\ Parent[last.r] = NoParent

C3_Witness ==
  /\ last.undoes
  /\ \E B \in Blocks : Len(RecipeList[B]) >= 2

\* C4: every recipe's parent is block B exactly when the recipe occurs in B's
\* list, is null exactly when it occurs in no list, and a recipe occurs at most
\* once over all lists; a destroyed recipe occurs in no list.
C4_ParentIffLinked ==
  /\ \A R \in alive :
       /\ \A B \in Blocks : (Parent[R] = B) <=> (Occurrences(RecipeList[B], R) > 0)
       /\ (Parent[R] = NoParent) <=> ~Linked(R)
       /\ TotalOccurrences(R) <= 1
  /\ \A R \in RecipeIds \ alive : ~Linked(R)

C4_Witness ==
  /\ last.op = "moveAfter" /\ fatal = ""
  /\ Parent[last.r] # NoParent
  /\ \E R \in alive : Parent[R] = NoParent

\* C5: insertBefore/insertAfter of a recipe that has a parent, or at a position
\* that is in no block, and removeFromParent/eraseFromParent of a recipe without
\* parent, end in a fatal assertion failure with every recipe list and every
\* parent as they were before the call.
C5_ViolationIsFatalBeforeChange ==
  LET violated ==
        \/ last.op \in InsertOps /\ (last.rLinked \/ ~last.pLinked)
        \/ last.op \in {"removeFromParent", "eraseFromParent"} /\ ~last.rLinked
  IN violated =>
       /\ fatal # ""
       /\ RecipeList = last.preList
       /\ Parent = last.preParent

C5_Witness ==
  /\ fatal # ""
  /\ last.op = "insertAfter" /\ last.rLinked /\ last.pLinked

-----------------------------------------------------------------------------
(* Properties of the lowering                                              *)

Parts == 0..(State.UF - 1)
Data(R, p) == State.Data[<<R, p>>]
Val(V) == Eval(State.IR, V)
EmittedBy(R) == {i \in 1..Len(State.IR) : State.IR[i].by = R}
PassComplete == pc = Len(LoweringOrder) + 1

\* C6: lowering a canonical-IV increment (NUW or not) emits exactly one add, for
\* part 0; the value of part 0 is start + VF * UF, where start is the value the
\* canonical IV phi of part 0 is seeded with; the entries of parts 1..UF-1 hold
\* the same value object as part 0.
C6_OneAddSharedByAllParts ==
  Lowered("Inc") =>
    LET Adds == {i \in EmittedBy("Inc") : State.IR[i].op = "add"}
        Next == Data("Inc", 0)
    IN /\ Cardinality(Adds) = 1
       /\ EmittedBy("Inc") = Adds
       /\ \A i \in Adds :
            /\ State.IR[i].part = 0
            /\ Next = InstRef(i)
            /\ ("nuw" \in State.IR[i].flags)
                 <=> (plan.Opcode["Inc"] = "CanonicalIVIncrementNUW")
       /\ Val(Data("CanIV", 0)) = <<plan.CanIVStart>>
       /\ Val(Next) = <<plan.CanIVStart + State.VF * State.UF>>
       /\ \A p \in Parts : Data("Inc", p) = Next

C6_Witness ==
  /\ Lowered("Inc")
  /\ State.UF = MaxUF /\ State.VF = MaxVF
  /\ plan.CanIVStart = 5
  /\ plan.Opcode["Inc"] = "CanonicalIVIncrementNUW"
  /\ Data("Inc", MaxUF - 1) = Data("Inc", 0)
  /\ Val(Data("Inc", 0)) = <<5 + MaxVF * MaxUF>>

\* The seed of a reduction phi: its incoming value from the preheader.
Seed(p) ==
  LET Phi == State.IR[Data("RedPhi", p)[2]]
  IN IF Len(Phi.incoming) = 1 /\ Phi.incoming[1].bb = "preheader"
       THEN Val(Phi.incoming[1].v)
     ELSE <<>>

RECURSIVE SeedSum(_)
SeedSum(p) == IF p < 0 THEN 0 ELSE SumSeq(Seed(p)) + SeedSum(p - 1)

\* C7: for an additive reduction phi that is not ordered, with start value S,
\* the seed of part 0 carries S (and zero in its other lanes), the seed of every
\* part 1..UF-1 is zero in every lane, and the sum of all lanes of all seeds is S.
C7_AdditiveSeedsSumToStart ==
  (Lowered("RedPhi") /\ plan.RK = "Add" /\ ~plan.IsOrdered) =>
    /\ \A p \in Parts :
         /\ Data("RedPhi", p)[1] = "i"
         /\ State.IR[Data("RedPhi", p)[2]].op = "phi"
         /\ Len(Seed(p)) = State.IR[Data("RedPhi", p)[2]].lanes
    /\ Seed(0)[1] = plan.RedStart
    /\ \A l \in 2..Len(Seed(0)) : Seed(0)[l] = 0
    /\ \A p \in Parts \ {0} : \A l \in 1..Len(Seed(p)) : Seed(p)[l] = 0
    /\ SeedSum(State.UF - 1) = plan.RedStart

C7_Witness ==
  /\ Lowered("RedPhi") /\ plan.RK = "Add" /\ ~plan.IsOrdered /\ ~plan.IsInLoop
  /\ State.UF = MaxUF /\ State.VF = MaxVF
  /\ Len(Seed(0)) = MaxVF /\ Seed(0)[1] = 10
  /\ Len(Seed(MaxUF - 1)) = MaxVF /\ SumSeq(Seed(MaxUF - 1)) = 0

\* C8: the first-order-recurrence splice of part p, with previous the value of
\* the recurrence phi of part 0 when p = 0 and the value of the current operand
\* of part p - 1 otherwise: for VF = 1 the result is previous itself; for VF > 1
\* lane 0 of the result is the last lane of previous and lanes 1..VF-1 are lanes
\* 0..VF-2 of the current operand of part p.
C8_SpliceOfPreviousAndCurrent ==
  Lowered("Splice") =>
    \A p \in Parts :
      LET previous == IF p = 0 THEN Data("FOR", 0) ELSE Data("WidenIV", p - 1)
          result == Data("Splice", p)
      IN IF State.VF = 1
           THEN result # NoValue /\ result = previous
         ELSE LET r == Val(result)
                  prev == Val(previous)
                  cur == Val(Data("WidenIV", p))
              IN /\ Len(r) = State.VF /\ Len(prev) = State.VF /\ Len(cur) = State.VF
                 /\ r[1] = prev[State.VF]
                 /\ \A l \in 2..State.VF : r[l] = cur[l - 1]

C8_Witness ==
  /\ Lowered("Splice")
  /\ State.VF = MaxVF /\ State.UF = MaxUF
  /\ Val(Data("Splice", 0))[1] = plan.FORStart
  /\ Val(Data("Splice", 1))[1] = Val(Data("WidenIV", 0))[MaxVF]
  /\ Val(Data("Splice", 1))[2] = Val(Data("WidenIV", 1))[1]
  /\ Val(Data("WidenIV", 0))[MaxVF] # Val(Data("WidenIV", 1))[MaxVF]

\* C9: the operation a widened unary or binary recipe emits for each part has
\* none of the flags nuw, nsw, exact when the recipe is in
\* MayGeneratePoisonRecipes, and exactly the flags of the mirrored operation
\* when it is not.
C9_PoisonFlagsDropped ==
  Lowered("Widen") =>
    /\ \A p \in Parts :
         /\ Data("Widen", p)[1] = "i"
         /\ Data("Widen", p)[2] \in EmittedBy("Widen")
         /\ State.IR[Data("Widen", p)[2]].part = p
    /\ \A i \in EmittedBy("Widen") :
         /\ State.IR[i].op = plan.Ingredient.opcode
         /\ IF "Widen" \in State.MayGeneratePoisonRecipes
              THEN State.IR[i].flags \cap {"nuw", "nsw", "exact"} = {}
            ELSE State.IR[i].flags = plan.Ingredient.flags

C9_Witness ==
  /\ Lowered("Widen")
  /\ "Widen" \in State.MayGeneratePoisonRecipes
  /\ plan.Ingredient.flags = {"nuw", "nsw"}
  /\ State.UF = MaxUF
  /\ State.IR[Data("Widen", MaxUF - 1)[2]].flags = {}

\* C10: during a lowering pass no key (value, part) of the value cache is stored
\* to a second time: every entry that was set holds the value first stored.
C10_SingleAssignment ==
  \A k \in DOMAIN State.Data :
    /\ State.stores[k] <= 1
    /\ State.stores[k] = 0 => State.Data[k] = NoValue
    /\ State.stores[k] = 1 => (State.Data[k] # NoValue /\ State.Data[k] = State.first[k])

C10_Witness ==
  /\ PassComplete
  /\ State.UF = MaxUF
  /\ ~plan.IsOrdered
  /\ \A p \in Parts :
       /\ State.stores[<<"RedPhi", p>>] = 1
       /\ State.stores[<<"Inc", p>>] = 1
       /\ State.stores[<<"BTC", p>>] = 1

\* The conditional branches a recipe created, and the terminators its block has.
BranchesBy(R) == {i \in EmittedBy(R) : State.IR[i].op = "br"}
Terminators == BlockTerminators(State)
TakenTarget(i) == State.IR[i].succ[1]
NotTakenTarget(i) == State.IR[i].succ[2]
PlaceholderReplacedBy(B) ==
  /\ 1 \in State.erased
  /\ Terminators = B
  /\ \A i \in B : \A j \in 1..Len(State.IR) : State.IR[j].bb = "header" => j <= i
BranchOnCondLowered == Lowered("Br") /\ plan.Opcode["Br"] = "BranchOnCond"
BranchOnCountLowered == Lowered("Br") /\ plan.Opcode["Br"] = "BranchOnCount"

\* C11 as stated: one conditional branch, created for part 0, replaces the
\* placeholder; its target for a true condition is bound to a generated block
\* when the recipe's block is exiting, its target for a false condition is
\* unbound.
C11_AsStated ==
  BranchOnCondLowered =>
    /\ Cardinality(BranchesBy("Br")) = 1
    /\ PlaceholderReplacedBy(BranchesBy("Br"))
    /\ \A i \in BranchesBy("Br") :
         /\ State.IR[i].part = 0
         /\ plan.isExiting => TakenTarget(i) = "header"
         /\ NotTakenTarget(i) = nullptr

\* C11: lowering a BranchOnCond creates one conditional branch, for part 0,
\* which replaces the placeholder unreachable terminator of the block; its
\* target for a false condition is the block of the loop header when the
\* recipe's block is exiting and unbound otherwise; its target for a true
\* condition is unbound.
C11_FalseTargetBoundWhenExiting ==
  BranchOnCondLowered =>
    /\ Cardinality(BranchesBy("Br")) = 1
    /\ PlaceholderReplacedBy(BranchesBy("Br"))
    /\ \A i \in BranchesBy("Br") :
         /\ State.IR[i].part = 0
         /\ TakenTarget(i) = nullptr
         /\ NotTakenTarget(i) = IF plan.isExiting THEN "header" ELSE nullptr

C11_Witness ==
  /\ BranchOnCondLowered /\ plan.isExiting
  /\ State.UF = MaxUF /\ State.VF = MaxVF
  /\ \E i \in BranchesBy("Br") :
       /\ State.IR[i].succ = <<nullptr, "header">>
       /\ State.IR[State.IR[i].args[1][2]].op = "extractelement"

\* C12: lowering a BranchOnCount creates, for part 0 only, one equality
\* compare of the induction value with the trip count and one conditional
\* branch on it; no part stores an entry for the recipe; afterwards the branch is
\* the only terminator of the block, one of its successors is the block of the
\* loop header and the other is unbound.
C12_OneCompareAndBranch ==
  BranchOnCountLowered =>
    LET Compares == {i \in EmittedBy("Br") : State.IR[i].op = "icmp eq"}
    IN /\ Cardinality(Compares) = 1
       /\ Cardinality(BranchesBy("Br")) = 1
       /\ EmittedBy("Br") = Compares \cup BranchesBy("Br")
       /\ \A i \in EmittedBy("Br") : State.IR[i].part = 0
       /\ \A i \in Compares :
            State.IR[i].args = <<Data("Inc", 0), Data("VTC", 0)>>
       /\ \A i \in BranchesBy("Br") :
            /\ \E c \in Compares : State.IR[i].args = <<InstRef(c)>>
            /\ \/ TakenTarget(i) = "header" /\ NotTakenTarget(i) = nullptr
               \/ TakenTarget(i) = nullptr /\ NotTakenTarget(i) = "header"
       /\ \A p \in Parts : State.stores[<<"Br", p>>] = 0 /\ Data("Br", p) = NoValue
       /\ PlaceholderReplacedBy(BranchesBy("Br"))

C12_Witness ==
  /\ BranchOnCountLowered
  /\ State.UF = MaxUF /\ State.VF = MaxVF
  /\ \E i \in BranchesBy("Br") :
       /\ Terminators = {i}
       /\ State.IR[i].succ = <<nullptr, "header">>
       /\ State.IR[State.IR[i].args[1][2]].op = "icmp eq"

\* C13: lowering a reduction phi creates UF phis, one stored per part, when the
\* reduction is not ordered, and one phi, stored for part 0 only, when it is
\* ordered; when the lowering returns every phi it created has exactly one
\* incoming edge, from the preheader.
C13_ReductionPhisPerPart ==
  Lowered("RedPhi") =>
    LET Phis == {i \in EmittedBy("RedPhi") : State.IR[i].op = "phi"}
        Stored == {p \in Parts : Data("RedPhi", p) # NoValue}
    IN /\ Cardinality(Phis) = IF plan.IsOrdered THEN 1 ELSE State.UF
       /\ Stored = IF plan.IsOrdered THEN {0} ELSE Parts
       /\ \A p \in Parts \ Stored : State.stores[<<"RedPhi", p>>] = 0
       /\ {Data("RedPhi", p) : p \in Stored} = {InstRef(i) : i \in Phis}
       /\ \A p \in Stored : State.IR[Data("RedPhi", p)[2]].part = p
       /\ \A i \in Phis :
            /\ Len(State.IR[i].incoming) = 1
            /\ State.IR[i].incoming[1].bb = "preheader"

C13_Witness ==
  /\ Lowered("RedPhi") /\ plan.IsOrdered
  /\ State.UF = MaxUF
  /\ Data("RedPhi", 0)[1] = "i"
  /\ Len(State.IR[Data("RedPhi", 0)[2]].incoming) = 1
  /\ \A p \in 1..(MaxUF - 1) : Data("RedPhi", p) = NoValue

\* C14: moveAfter(P) of a linked recipe R, for a linked P other than R, ends
\* with R in the block of P right after P; moveBefore(B, I) of a linked R, for I
\* the end of B or a recipe of B other than R, ends with R in B right before
\* that recipe, or last in B; in both cases the other recipes keep their order
\* in every block and their parents.
Without(s, R) == SelectSeq(s, LAMBDA x : x # R)
C14_MoveRelinksAtPosition ==
  LET R == last.r
      P == last.p
      moved ==
        \/ /\ last.op = "moveAfter"
           /\ last.rLinked /\ last.pLinked /\ P # R
        \/ /\ last.op = "moveBefore"
           /\ last.rLinked
           /\ P = EndIt \/ (P # R /\ last.preParent[P] = last.bb)
      B == IF last.op = "moveAfter" THEN last.preParent[P] ELSE last.bb
  IN moved =>
       /\ fatal = ""
       /\ Parent[R] = B
       /\ Occurrences(RecipeList[B], R) = 1
       /\ LET i == IndexOf(RecipeList[B], R) IN
            IF last.op = "moveAfter" THEN i > 1 /\ RecipeList[B][i - 1] = P
            ELSE IF P = EndIt THEN i = Len(RecipeList[B])
            ELSE i < Len(RecipeList[B]) /\ RecipeList[B][i + 1] = P
       /\ \A b \in Blocks : Without(RecipeList[b], R) = Without(last.preList[b], R)
       /\ \A Q \in RecipeIds \ {R} : Parent[Q] = last.preParent[Q]

C14_Witness ==
  /\ fatal = ""
  /\ last.op = "moveBefore" /\ last.rLinked /\ last.p # EndIt /\ last.p # last.r
  /\ last.preParent[last.r] # last.bb
  /\ Parent[last.r] = last.bb
  /\ Len(RecipeList[last.bb]) = MaxRecipes
  /\ RecipeList[last.bb][2] = last.r

\* C15: with c the value of the canonical IV, the widened canonical IV of part
\* p is c + p for VF = 1 and has c + p * VF + l in lane l for VF > 1; the UF * VF
\* lanes of all parts hold the distinct values c .. c + UF * VF - 1.
C15_WidenedIVIsContiguous ==
  Lowered("WidenIV") =>
    LET c == Val(Data("CanIV", 0))[1]
        W == State.VF
        Lanes(p) == Val(Data("WidenIV", p))
        All == UNION {{Lanes(p)[l] : l \in 1..Len(Lanes(p))} : p \in Parts}
    IN /\ \A p \in Parts :
            /\ Len(Lanes(p)) = W
            /\ \A l \in 0..(W - 1) : Lanes(p)[l + 1] = c + p * W + l
       /\ All = c..(c + State.UF * W - 1)
       /\ Cardinality(All) = State.UF * W

C15_Witness ==
  /\ Lowered("WidenIV")
  /\ State.UF = MaxUF /\ State.VF = MaxVF
  /\ plan.CanIVStart = 5
  /\ Val(Data("WidenIV", 0))[1] = 5
  /\ Val(Data("WidenIV", MaxUF - 1))[MaxVF] = 5 + MaxUF * MaxVF - 1

\* C16: lowering a first-order recurrence phi creates one phi, whatever UF is,
\* and stores it for part 0 only; its only incoming value, from the preheader,
\* is the start value itself for VF = 1 and otherwise a vector with the start
\* value in lane VF - 1 and poison in the other lanes; the splice never reads an
\* entry of the phi that does not exist.
C16_OneRecurrencePhi ==
  Lowered("FOR") =>
    LET Phis == {i \in EmittedBy("FOR") : State.IR[i].op = "phi"}
    IN /\ Cardinality(Phis) = 1
       /\ \A i \in Phis :
            /\ Data("FOR", 0) = InstRef(i)
            /\ Len(State.IR[i].incoming) = 1
            /\ State.IR[i].incoming[1].bb = "preheader"
            /\ LET Init == State.IR[i].incoming[1].v IN
                 IF State.VF = 1 THEN Init = ConstRef(plan.FORStart)
                 ELSE /\ Len(Val(Init)) = State.VF
                      /\ Val(Init)[State.VF] = plan.FORStart
                      /\ \A l \in 1..(State.VF - 1) : Val(Init)[l] = Poison
       /\ \A p \in Parts \ {0} :
            Data("FOR", p) = NoValue /\ State.stores[<<"FOR", p>>] = 0
       /\ \A p \in Parts : <<"FOR", p>> \notin State.missed

C16_Witness ==
  /\ Lowered("Splice")
  /\ State.UF = MaxUF /\ State.VF = MaxVF
  /\ Val(Data("FOR", 0))[MaxVF] = 7
  /\ Val(Data("FOR", 0))[1] = Poison
  /\ Data("FOR", MaxUF - 1) = NoValue
  /\ Data("Splice", MaxUF - 1) # NoValue

\* C17: for every recipe kind, a recipe for which mayWriteToMemory returns
\* true is one for which mayHaveSideEffects returns true as well (never false).
C17_WriteImpliesSideEffects ==
  ~(ans.wr = "true" /\ ans.se = "false")

\* C18: VPInstruction::execute lowers the parts 0, 1, .., UF-1 in this order,
\* each once: what a VPInstruction emits is in ascending order of part and each
\* part's entry is stored once; no read of a value defined by a recipe, made
\* while a part is lowered, finds the entry missing, in particular not the read
\* of the increment's own entry of part 0 and not the splice's read of the
\* current operand of part p - 1.
C18_PartsAscendingReadsFindEntries ==
  /\ State.missed = {}
  /\ \A R \in VPInstructionIds :
       Lowered(R) =>
         /\ R # "Br" =>
              \A p \in Parts : State.stores[<<R, p>>] = 1 /\ Data(R, p) # NoValue
         /\ \A i, j \in EmittedBy(R) : i < j => State.IR[i].part <= State.IR[j].part

C18_Witness ==
  /\ Lowered("Inc")
  /\ State.UF = MaxUF /\ State.VF = MaxVF
  /\ State.missed = {}
  /\ Data("Inc", MaxUF - 1) = Data("Inc", 0) /\ Data("Inc", 0) # NoValue
  /\ State.IR[Data("Splice", MaxUF - 1)[2]].op = "splice"
  /\ State.IR[Data("Splice", MaxUF - 1)[2]].args[1] = Data("WidenIV", MaxUF - 2)
  /\ State.IR[Data("Mask", MaxUF - 1)[2]].part = MaxUF - 1

====
